---- MODULE Spec2Model ----
(***************************************************************************)
(* Model of tender.py: the SAM.gov contract agent.                         *)
(*                                                                         *)
(* Text is a sequence of one-character strings, so that title-casing,      *)
(* slicing, substring search and splitting are computed as Python computes *)
(* them.  A value that may be of any JSON type is a record [t, s] whose    *)
(* tag t is "str", "null", "num", "dict", "obj" or "list"; for "str" s is  *)
(* the text, for "dict" s is the text under the key 'name' (has tells      *)
(* whether the key is there).                                              *)
(***************************************************************************)
EXTENDS Integers, Sequences, FiniteSets, TLC

(***************************************************************************)
(* Python str and list primitives                                          *)
(***************************************************************************)
Min(a, b) == IF a <= b THEN a ELSE b

Max(a, b) == IF a >= b THEN a ELSE b

ascii_lowercase ==
    <<"a","b","c","d","e","f","g","h","i","j","k","l","m",
      "n","o","p","q","r","s","t","u","v","w","x","y","z">>

ascii_uppercase ==
    <<"A","B","C","D","E","F","G","H","I","J","K","L","M",
      "N","O","P","Q","R","S","T","U","V","W","X","Y","Z">>

digits == {"0","1","2","3","4","5","6","7","8","9"}

whitespace == {" ", "\n", "\t"}

\* the upper-case letter of each lower-case letter, and the converse
upper_of == [c \in {ascii_lowercase[i] : i \in 1..26} |->
                ascii_uppercase[CHOOSE i \in 1..26 : ascii_lowercase[i] = c]]

lower_of == [c \in {ascii_uppercase[i] : i \in 1..26} |->
                ascii_lowercase[CHOOSE i \in 1..26 : ascii_uppercase[i] = c]]

islower(c) == c \in DOMAIN upper_of

isupper(c) == c \in DOMAIN lower_of

iscased(c) == islower(c) \/ isupper(c)

toupper(c) == IF islower(c) THEN upper_of[c] ELSE c

tolower(c) == IF isupper(c) THEN lower_of[c] ELSE c

\* title-casing forgotten: the text as it is
str_title_unchanged(s) == s

\* str.title(): a cased character is upper-cased when the character before it is
\* uncased (or there is none) and lower-cased otherwise
str_title(s) ==
    [i \in 1..Len(s) |-> IF i > 1 /\ iscased(s[i-1]) THEN tolower(s[i]) ELSE toupper(s[i])]

str_lower(s) == [i \in 1..Len(s) |-> tolower(s[i])]

\* sub occurs in s at (1-based) position i
IsAt(s, sub, i) ==
    /\ i >= 1
    /\ i + Len(sub) - 1 <= Len(s)
    /\ \A j \in 1..Len(sub) : s[i + j - 1] = sub[j]

\* Python's `sub in s`
str_in(sub, s) == \E i \in 1..(Len(s) - Len(sub) + 1) : IsAt(s, sub, i)

\* 1-based position of the first occurrence of sub in s, 0 when there is none
str_find(s, sub) ==
    IF str_in(sub, s)
    THEN CHOOSE i \in 1..(Len(s) - Len(sub) + 1) :
            IsAt(s, sub, i) /\ \A k \in 1..(i - 1) : ~IsAt(s, sub, k)
    ELSE 0

str_startswith(s, prefix) == IsAt(s, prefix, 1)

\* Python's s[:n], for sequences and for text, n of either sign
slice_to(s, n) ==
    IF n >= 0 THEN SubSeq(s, 1, Min(n, Len(s)))
    ELSE SubSeq(s, 1, Max(Len(s) + n, 0))

\* Python's s[n:] for n >= 0
slice_from(s, n) == SubSeq(s, Min(n, Len(s)) + 1, Len(s))

\* str.strip(): leading and trailing whitespace removed
str_strip(s) ==
    IF \A i \in 1..Len(s) : s[i] \in whitespace THEN << >>
    ELSE LET first == CHOOSE i \in 1..Len(s) :
                         s[i] \notin whitespace /\ \A k \in 1..(i-1) : s[k] \in whitespace
             last  == CHOOSE i \in 1..Len(s) :
                         s[i] \notin whitespace /\ \A k \in (i+1)..Len(s) : s[k] \in whitespace
         IN SubSeq(s, first, last)

\* str.split(sep, 1): at most one split, at the first occurrence of sep
str_split1(s, sep) ==
    LET p == str_find(s, sep)
    IN IF p = 0 THEN <<s>>
       ELSE <<SubSeq(s, 1, p - 1), SubSeq(s, p + Len(sep), Len(s))>>

(***************************************************************************)
(* Values and opportunity records                                          *)
(***************************************************************************)
JStr(s) == [t |-> "str", s |-> s, has |-> FALSE]

JNull == [t |-> "null", s |-> << >>, has |-> FALSE]

\* a number; s is its decimal text, which is what str() makes of it
JNum(d) == [t |-> "num", s |-> d, has |-> FALSE]

JDict(has, name) == [t |-> "dict", s |-> name, has |-> has]

\* a JSON object: f is a record whose fields are the keys that are present
JObj(f) == [t |-> "obj", s |-> << >>, has |-> FALSE, f |-> f]

\* a JSON array of the items in the sequence f
JList(f) == [t |-> "list", s |-> << >>, has |-> FALSE, f |-> f]

\* the outcome of a call: an exception, or the value returned
Raise == [exc |-> TRUE, ret |-> << >>]

Return(v) == [exc |-> FALSE, ret |-> v]

\* dict.get(key, default)
dict_get(d, key, default) == IF key \in DOMAIN d THEN d[key] ELSE default

\* str(v) of a value that is not a dict
py_str(v) == IF v.t = "null" THEN <<"N","o","n","e">> ELSE v.s

Contract(title, notice_id, description, posted_date, response_deadline, department, type, naics_code) ==
    [title |-> title, notice_id |-> notice_id, description |-> description,
     posted_date |-> posted_date, response_deadline |-> response_deadline,
     department |-> department, type |-> type, naics_code |-> naics_code]

Fields == {"title", "notice_id", "description", "posted_date",
           "response_deadline", "department", "type", "naics_code"}

(***************************************************************************)
(* generate_sample_contracts                                               *)
(***************************************************************************)
sample_contracts(keyword) ==
    << Contract(
         JStr(str_title(keyword) \o <<" ","S","e","r","v","i","c","e","s"," ","a","n","d"," ","M","a","i","n","t","e","n","a",
               "n","c","e"," ","C","o","n","t","r","a","c","t">>),
         JStr(<<"D","E","M","O","-","2","0","2","4","-","0","0","1">>),
         JStr(<<"T","h","e"," ","D","e","p","a","r","t","m","e","n","t"," ","o","f"," ","G","e","n","e",
               "r","a","l"," ","S","e","r","v","i","c","e","s"," ","i","s"," ","s","e","e","k","i","n",
               "g"," ","q","u","a","l","i","f","i","e","d"," ","c","o","n","t","r","a","c","t","o","r",
               "s"," ","t","o"," ","p","r","o","v","i","d","e"," ","c","o","m","p","r","e","h","e","n",
               "s","i","v","e"," ">>
              \o keyword \o <<" ","s","e","r","v","i","c","e","s"," ","f","o","r"," ","f","e","d","e","r","a","l"," ",
                    "f","a","c","i","l","i","t","i","e","s","."," ","T","h","i","s"," ","i","n","c","l","u",
                    "d","e","s"," ","r","e","g","u","l","a","r"," ","m","a","i","n","t","e","n","a","n","c",
                    "e",","," ","s","e","a","s","o","n","a","l"," ","w","o","r","k",","," ","e","q","u","i",
                    "p","m","e","n","t"," ","p","r","o","v","i","s","i","o","n",","," ","a","n","d"," ","e",
                    "m","e","r","g","e","n","c","y"," ","r","e","s","p","o","n","s","e"," ","s","e","r","v",
                    "i","c","e","s","."," ","C","o","n","t","r","a","c","t","o","r","s"," ","m","u","s","t",
                    " ","d","e","m","o","n","s","t","r","a","t","e"," ","e","x","p","e","r","i","e","n","c",
                    "e"," ","w","i","t","h"," ","s","i","m","i","l","a","r"," ","g","o","v","e","r","n","m",
                    "e","n","t"," ","c","o","n","t","r","a","c","t","s"," ","a","n","d"," ","m","e","e","t",
                    " ","a","l","l"," ","f","e","d","e","r","a","l"," ","c","o","m","p","l","i","a","n","c",
                    "e"," ","r","e","q","u","i","r","e","m","e","n","t","s","."," ","T","h","e"," ","c","o",
                    "n","t","r","a","c","t"," ","p","e","r","i","o","d"," ","i","s"," ","f","o","r"," ","a",
                    " ","b","a","s","e"," ","y","e","a","r"," ","w","i","t","h"," ","f","o","u","r"," ","o",
                    "p","t","i","o","n"," ","y","e","a","r","s",".">>),
         JStr(<<"2","0","2","4","-","1","0","-","1","5">>),
         JStr(<<"2","0","2","4","-","1","2","-","0","1">>),
         JStr(<<"D","e","p","a","r","t","m","e","n","t"," ","o","f"," ","G","e","n","e","r","a","l"," ",
               "S","e","r","v","i","c","e","s">>),
         JStr(<<"C","o","m","b","i","n","e","d"," ","S","y","n","o","p","s","i","s","/","S","o","l","i",
               "c","i","t","a","t","i","o","n">>),
         JStr(<<"5","6","1","7","3","0">>)),
       Contract(
         JStr(<<"M","u","l","t","i","-","S","i","t","e"," ">> \o str_title(keyword) \o <<" ","a","n","d"," ","L","a","n","d","s","c","a","p","e"," ","M","a","n","a","g","e","m",
               "e","n","t">>),
         JStr(<<"D","E","M","O","-","2","0","2","4","-","0","0","2">>),
         JStr(<<"T","h","i","s"," ","p","r","o","c","u","r","e","m","e","n","t"," ","i","s"," ","f","o",
               "r"," ","p","r","o","f","e","s","s","i","o","n","a","l"," ">>
              \o keyword \o <<" ","a","n","d"," ","l","a","n","d","s","c","a","p","e"," ","m","a","n","a","g","e","m",
                    "e","n","t"," ","s","e","r","v","i","c","e","s"," ","a","t"," ","m","u","l","t","i","p",
                    "l","e"," ","f","e","d","e","r","a","l"," ","b","u","i","l","d","i","n","g","s"," ","a",
                    "n","d"," ","g","r","o","u","n","d","s"," ","i","n"," ","t","h","e"," ","r","e","g","i",
                    "o","n","."," ","T","h","e"," ","s","c","o","p","e"," ","i","n","c","l","u","d","e","s",
                    " ","d","e","s","i","g","n"," ","c","o","n","s","u","l","t","a","t","i","o","n",","," ",
                    "p","l","a","n","t"," ","m","a","t","e","r","i","a","l"," ","s","e","l","e","c","t","i",
                    "o","n"," ","a","n","d"," ","i","n","s","t","a","l","l","a","t","i","o","n",","," ","i",
                    "r","r","i","g","a","t","i","o","n"," ","s","y","s","t","e","m"," ","m","a","i","n","t",
                    "e","n","a","n","c","e",","," ","i","n","t","e","g","r","a","t","e","d"," ","p","e","s",
                    "t"," ","m","a","n","a","g","e","m","e","n","t",","," ","a","n","d"," ","s","u","s","t",
                    "a","i","n","a","b","l","e"," ","l","a","n","d","s","c","a","p","e"," ","p","r","a","c",
                    "t","i","c","e","s","."," ","P","r","e","f","e","r","e","n","c","e"," ","g","i","v","e",
                    "n"," ","t","o"," ","c","o","n","t","r","a","c","t","o","r","s"," ","w","i","t","h"," ",
                    "L","E","E","D"," ","c","e","r","t","i","f","i","c","a","t","i","o","n","s",","," ","s",
                    "u","s","t","a","i","n","a","b","l","e"," ">>
              \o keyword \o <<" ","p","r","a","c","t","i","c","e","s",","," ","a","n","d"," ","v","e","t","e","r","a",
                    "n","-","o","w","n","e","d"," ","b","u","s","i","n","e","s","s"," ","s","t","a","t","u",
                    "s",".">>),
         JStr(<<"2","0","2","4","-","1","0","-","2","0">>),
         JStr(<<"2","0","2","4","-","1","2","-","1","5">>),
         JStr(<<"G","e","n","e","r","a","l"," ","S","e","r","v","i","c","e","s"," ","A","d","m","i","n",
               "i","s","t","r","a","t","i","o","n">>),
         JStr(<<"S","o","l","i","c","i","t","a","t","i","o","n">>),
         JStr(<<"5","6","1","7","3","0">>)),
       Contract(
         JStr(str_title(keyword) \o <<" ","E","q","u","i","p","m","e","n","t"," ","a","n","d"," ","M","a","t","e","r","i","a",
               "l","s"," ","S","u","p","p","l","y"," ","C","o","n","t","r","a","c","t">>),
         JStr(<<"D","E","M","O","-","2","0","2","4","-","0","0","3">>),
         JStr(<<"T","h","e"," ","D","e","p","a","r","t","m","e","n","t"," ","o","f"," ","V","e","t","e",
               "r","a","n","s"," ","A","f","f","a","i","r","s"," ","r","e","q","u","i","r","e","s"," ">>
              \o keyword \o <<" ","e","q","u","i","p","m","e","n","t",","," ","m","a","t","e","r","i","a","l","s",",",
                    " ","a","n","d"," ","s","u","p","p","l","i","e","s"," ","f","o","r"," ","m","u","l","t",
                    "i","p","l","e"," ","m","e","d","i","c","a","l"," ","c","e","n","t","e","r"," ","l","o",
                    "c","a","t","i","o","n","s"," ","n","a","t","i","o","n","w","i","d","e","."," ","T","h",
                    "i","s"," ","i","n","c","l","u","d","e","s"," ","c","o","m","m","e","r","c","i","a","l",
                    "-","g","r","a","d","e"," ","e","q","u","i","p","m","e","n","t",","," ","m","a","i","n",
                    "t","e","n","a","n","c","e"," ","t","o","o","l","s",","," ","o","r","g","a","n","i","c",
                    " ","m","a","t","e","r","i","a","l","s",","," ","a","n","d"," ","p","r","o","f","e","s",
                    "s","i","o","n","a","l"," ","i","n","s","t","a","l","l","a","t","i","o","n"," ","s","e",
                    "r","v","i","c","e","s","."," ","D","e","l","i","v","e","r","i","e","s"," ","m","u","s",
                    "t"," ","m","e","e","t"," ","f","e","d","e","r","a","l"," ","s","u","s","t","a","i","n",
                    "a","b","i","l","i","t","y"," ","s","t","a","n","d","a","r","d","s"," ","a","n","d"," ",
                    "s","u","p","p","o","r","t"," ","s","m","a","l","l"," ","b","u","s","i","n","e","s","s",
                    " ","p","a","r","t","i","c","i","p","a","t","i","o","n","."," ","T","h","i","s"," ","i",
                    "s"," ","a"," ","m","u","l","t","i","-","y","e","a","r"," ","i","n","d","e","f","i","n",
                    "i","t","e"," ","d","e","l","i","v","e","r","y","/","i","n","d","e","f","i","n","i","t",
                    "e"," ","q","u","a","n","t","i","t","y"," ","(","I","D","I","Q",")"," ","c","o","n","t",
                    "r","a","c","t"," ","w","i","t","h"," ","a"," ","c","e","i","l","i","n","g"," ","o","f",
                    " ","$","5","M",".">>),
         JStr(<<"2","0","2","4","-","1","0","-","2","5">>),
         JStr(<<"2","0","2","4","-","1","2","-","2","0">>),
         JStr(<<"D","e","p","a","r","t","m","e","n","t"," ","o","f"," ","V","e","t","e","r","a","n","s",
               " ","A","f","f","a","i","r","s">>),
         JStr(<<"P","r","e","s","o","l","i","c","i","t","a","t","i","o","n">>),
         JStr(<<"5","6","1","7","3","0">>)) >>

\* the calls of generate_sample_contracts so far: arguments and result
VARIABLE sample_calls

\* a generator that numbers its calls: the second call returns one record less
generate_sample_contracts_counting(keyword, limit) ==
    slice_to(sample_contracts(keyword), limit - Len(sample_calls))

generate_sample_contracts(keyword, limit) == slice_to(sample_contracts(keyword), limit)

(***************************************************************************)
(* parse_sam_api_response                                                  *)
(***************************************************************************)
ApiDescMax == 1500

\* one item of opportunitiesData mapped onto the canonical record; the item must
\* be an object and its description must be sliceable
api_item_raises(opp) ==
    \/ opp.t # "obj"
    \/ dict_get(opp.f, "description", JStr(<<"N","o"," ","d","e","s","c","r","i","p","t","i","o","n">>)).t # "str"

api_contract(opp) ==
    LET dep == dict_get(opp.f, "department", JStr(<<"N","/","A">>))
    IN Contract(
         dict_get(opp.f, "title", JStr(<<"N","o"," ","t","i","t","l","e">>)),
         dict_get(opp.f, "noticeId", JStr(<<"N","/","A">>)),
         JStr(slice_to(dict_get(opp.f, "description", JStr(<<"N","o"," ","d","e","s","c","r","i","p","t","i","o","n">>)).s, ApiDescMax)),
         dict_get(opp.f, "postedDate", JStr(<<"N","/","A">>)),
         dict_get(opp.f, "responseDeadLine", JStr(<<"N","/","A">>)),
         IF dep.t = "dict"
           THEN (IF dep.has THEN JStr(dep.s) ELSE JStr(<<"N","/","A">>))
           ELSE JStr(py_str(dep)),
         dict_get(opp.f, "type", JStr(<<"N","/","A">>)),
         dict_get(opp.f, "naicsCode", JStr(<<"N","/","A">>)))

\* the slice [:limit] forgotten: every item is mapped
parse_sam_api_response_unsliced(data, limit) ==
    LET opportunities == dict_get(data.f, "opportunitiesData", JList(<< >>))
    IN IF opportunities.t = "list"
       THEN LET opps == opportunities.f
            IN IF \E i \in 1..Len(opps) : api_item_raises(opps[i])
               THEN Raise
               ELSE Return([i \in 1..Len(opps) |-> api_contract(opps[i])])
       ELSE IF opportunities.t = "str"
       THEN (IF Len(opportunities.s) > 0 THEN Raise ELSE Return(<< >>))
       ELSE Raise

\* data is the decoded body, an object; the result is Raise when slicing
\* opportunitiesData or reading an item raises
parse_sam_api_response(data, limit) ==
    LET opportunities == dict_get(data.f, "opportunitiesData", JList(<< >>))
    IN IF opportunities.t = "list"
       THEN LET opps == slice_to(opportunities.f, limit)
            IN IF \E i \in 1..Len(opps) : api_item_raises(opps[i])
               THEN Raise
               ELSE Return([i \in 1..Len(opps) |-> api_contract(opps[i])])
       ELSE IF opportunities.t = "str"
       THEN (IF Len(slice_to(opportunities.s, limit)) > 0 THEN Raise ELSE Return(<< >>))
       ELSE Raise

(***************************************************************************)
(* parse_rss_feed                                                          *)
(***************************************************************************)
FeedTitleMax == 200

FeedDescMax == 1500

\* an element of a feed item: present or not, and its text
Elem(s) == [has |-> TRUE, s |-> s]

NoElem == [has |-> FALSE, s |-> << >>]

\* BeautifulSoup(description, 'html.parser').get_text(): the text outside tags
RECURSIVE strip_markup(_)
strip_markup(s) ==
    IF s = << >> THEN << >>
    ELSE IF Head(s) = "<" /\ str_in(<<">">>, s)
         THEN strip_markup(slice_from(s, str_find(s, <<">">>)))
         ELSE <<Head(s)>> \o strip_markup(Tail(s))

\* re.search(r'[A-Z0-9-]{10,}', link): the first maximal run of ten or more
\* characters of the class, << >> when there is none
LinkIdChars == DOMAIN lower_of \cup digits \cup {"-"}

\* the end of the longest run of characters of a class that starts at i (i - 1
\* when s[i] is not of the class)
RunEnd(s, i, class) ==
    CHOOSE j \in (i - 1)..Len(s) :
        /\ (j = Len(s) \/ s[j + 1] \notin class)
        /\ \A k \in i..j : s[k] \in class

\* the n characters of s from i on are all of the class
RunOf(s, i, n, class) ==
    i + n - 1 <= Len(s) /\ \A k \in i..(i + n - 1) : s[k] \in class

\* the least element of a non-empty set of integers
Least(S) == CHOOSE x \in S : \A y \in S : x <= y

Greatest(S) == CHOOSE x \in S : \A y \in S : x >= y

LinkIdMin == 10

first_link_id(link, starts) ==
    IF starts = {} THEN << >>
    ELSE SubSeq(link, Least(starts), RunEnd(link, Least(starts), LinkIdChars))

link_notice_id(link) ==
    first_link_id(link, {i \in 1..Len(link) : RunOf(link, i, LinkIdMin, LinkIdChars)})

\* "N/A" unless the link holds an identifier
or_na(id) == IF id # << >> THEN id ELSE <<"N","/","A">>

feed_contract(item, keyword) ==
    Contract(
      JStr(slice_to(IF item.title.has THEN item.title.s
                    ELSE str_title(keyword) \o <<" ","O","p","p","o","r","t","u","n","i","t","y">>, FeedTitleMax)),
      JStr(or_na(IF item.link.has THEN link_notice_id(item.link.s) ELSE << >>)),
      JStr(slice_to(strip_markup(IF item.description.has THEN item.description.s ELSE << >>),
                    FeedDescMax)),
      JStr(IF item.pubDate.has THEN item.pubDate.s ELSE <<"N","/","A">>),
      JStr(<<"S","e","e"," ","S","A","M",".","g","o","v">>),
      JStr(<<"F","e","d","e","r","a","l"," ","G","o","v","e","r","n","m","e","n","t">>),
      JStr(<<"A","c","t","i","v","e"," ","O","p","p","o","r","t","u","n","i","t","y">>),
      JStr(<<"S","e","e"," ","S","A","M",".","g","o","v">>))

\* rss_content is [ok, items]: ok is FALSE when the parser raises, which the
\* function catches
parse_rss_feed(rss_content, keyword, limit) ==
    IF ~rss_content.ok THEN << >>
    ELSE LET items == slice_to(rss_content.items, limit)
         IN [i \in 1..Len(items) |-> feed_contract(items[i], keyword)]

(***************************************************************************)
(* fetch_sam_contracts_playwright: extraction from the rendered page       *)
(*                                                                         *)
(* A candidate container is [raises, heading, link, lines]: heading is the *)
(* text of its first h1..h5, link the text of its first opportunity-like   *)
(* anchor, lines the non-empty stripped text lines of get_text('\n');      *)
(* raises says that reading the container raises.                          *)
(***************************************************************************)
ScrapeTitleMin == 15

ScrapeTitleMax == 250

ScrapeDescMax == 2000

NavTextMax == 100

DescLineMin == 50

DeptLineMax == 100

skip_terms ==
    { <<"p","r","i","v","a","c","y">>, <<"t","e","r","m","s"," ","o","f"," ","u","s","e">>, <<"s","i","t","e","m","a","p">>, <<"h","e","l","p"," ","g","u","i","d","e">>, <<"a","l","l"," ","d","o","m","a","i","n","s">>, <<"s","i","g","n"," ","i","n">> }

generic_titles == { <<"a","l","l"," ","d","o","m","a","i","n","s">>, <<"h","e","l","p"," ","g","u","i","d","e">>, <<"s","e","a","r","c","h">>, <<"f","i","l","t","e","r">> }

notice_terms == { <<"n","o","t","i","c","e"," ","i","d">>, <<"s","o","l","i","c","i","t","a","t","i","o","n">>, <<"n","u","m","b","e","r">>, <<"a","w","a","r","d">> }

department_terms == { <<"d","e","p","a","r","t","m","e","n","t">>, <<"a","g","e","n","c","y">>, <<"o","f","f","i","c","e"," ","o","f">> }

RECURSIVE str_join(_, _)
str_join(lines, sep) ==
    IF Len(lines) <= 1 THEN (IF lines = << >> THEN << >> ELSE lines[1])
    ELSE lines[1] \o sep \o str_join(Tail(lines), sep)

\* any(term in line.lower() for term in terms)
lowered_has_term(low, terms) == \E term \in terms : str_in(term, low)

has_term(line, terms) == lowered_has_term(str_lower(line), terms)

\* the greatest element of a set of naturals, 0 when it is empty
GreatestOr0(S) == IF S = {} THEN 0 ELSE Greatest(S)

IdChars == DOMAIN lower_of \cup digits

CharAt(s, i, c) == i <= Len(s) /\ s[i] = c

NoticeIdMin == 5

\* the match of [A-Z0-9]{5,}[-_]?[A-Z0-9]* that starts at i and whose first run
\* ends at e1
notice_match_from(line, i, e1) ==
    IF e1 < Len(line) /\ line[e1 + 1] \in {"-", "_"}
    THEN SubSeq(line, i, RunEnd(line, e1 + 2, IdChars))
    ELSE SubSeq(line, i, e1)

notice_match_at(line, i) == notice_match_from(line, i, RunEnd(line, i, IdChars))

first_notice_match(line, starts) ==
    IF starts = {} THEN << >> ELSE notice_match_at(line, Least(starts))

\* re.search(r'[A-Z0-9]{5,}[-_]?[A-Z0-9]*', line), << >> when there is no match
notice_match(line) ==
    first_notice_match(line, {i \in 1..Len(line) : RunOf(line, i, NoticeIdMin, IdChars)})

notice_id_of(lines, hits) ==
    IF hits = {} THEN <<"N","/","A">> ELSE notice_match(lines[Least(hits)])

\* the first line that names a notice and holds a code gives the identifier
scrape_notice_id(lines) ==
    notice_id_of(lines, {i \in 1..Len(lines) :
                            has_term(lines[i], notice_terms) /\ notice_match(lines[i]) # << >>})

\* \d{1,2}/\d{1,2}/\d{4} at position i: the length matched, 0 when it does not
\* match (the digits before each slash can be taken in one way only)
DateSlashLen(s, i) ==
    GreatestOr0({ab[1] + ab[2] + 6 : ab \in
        {x \in {1, 2} \X {1, 2} :
            /\ RunOf(s, i, x[1], digits)
            /\ CharAt(s, i + x[1], "/")
            /\ RunOf(s, i + x[1] + 1, x[2], digits)
            /\ CharAt(s, i + x[1] + 1 + x[2], "/")
            /\ RunOf(s, i + x[1] + x[2] + 2, 4, digits)}})

\* \d{4}-\d{2}-\d{2} at position i
DateIsoLen(s, i) ==
    IF /\ RunOf(s, i, 4, digits) /\ CharAt(s, i + 4, "-")
       /\ RunOf(s, i + 5, 2, digits) /\ CharAt(s, i + 7, "-")
       /\ RunOf(s, i + 8, 2, digits)
    THEN 10 ELSE 0

\* [A-Z][a-z]{2}\s+\d{1,2},?\s+\d{4} at position i matches n characters: a spaces,
\* nd digits, nc commas, then spaces up to the four digits that end the match
DateNamedFits(s, i, n) ==
    \E a \in 1..(n - 9), nd \in {1, 2}, nc \in {0, 1} :
        /\ n - 7 - a - nd - nc >= 1
        /\ RunOf(s, i + 3, a, whitespace)
        /\ RunOf(s, i + 3 + a, nd, digits)
        /\ (nc = 1 => CharAt(s, i + 3 + a + nd, ","))
        /\ RunOf(s, i + 3 + a + nd + nc, n - 7 - a - nd - nc, whitespace)
        /\ RunOf(s, i + n - 4, 4, digits)

DateNamedLen(s, i) ==
    IF i + 2 <= Len(s) /\ isupper(s[i]) /\ islower(s[i + 1]) /\ islower(s[i + 2])
    THEN GreatestOr0({n \in 10..(Len(s) - i + 1) : DateNamedFits(s, i, n)})
    ELSE 0

\* the length the pattern matches at position i, 0 when it does not match there;
\* the three alternatives begin differently, so at most one of them matches
DateLenAt(s, i) == DateSlashLen(s, i) + DateIsoLen(s, i) + DateNamedLen(s, i)

date_at(line, i) == SubSeq(line, i, i + DateLenAt(line, i) - 1)

first_date(line, starts) == IF starts = {} THEN << >> ELSE date_at(line, Least(starts))

\* the date re.search finds in the line, << >> when there is none
date_match(line) == first_date(line, {i \in 1..Len(line) : DateLenAt(line, i) > 0})

is_posted_line(line) ==
    /\ has_term(line, { <<"p","o","s","t">>, <<"p","u","b","l","i","s","h">> })
    /\ date_match(line) # << >>

is_deadline_line(line) ==
    /\ ~has_term(line, { <<"p","o","s","t">>, <<"p","u","b","l","i","s","h">> })
    /\ has_term(line, { <<"d","e","a","d">>, <<"d","u","e">>, <<"r","e","s","p","o","n","s","e">> })
    /\ date_match(line) # << >>

\* the loop over the lines does not break: the last line of the kind wins
last_date(lines, hits, default) ==
    IF hits = {} THEN default ELSE date_match(lines[Greatest(hits)])

scrape_posted_date(lines) ==
    last_date(lines, {i \in 1..Len(lines) : is_posted_line(lines[i])}, <<"R","e","c","e","n","t","l","y"," ","p","o","s","t","e","d">>)

scrape_deadline(lines) ==
    last_date(lines, {i \in 1..Len(lines) : is_deadline_line(lines[i])},
              <<"S","e","e"," ","S","A","M",".","g","o","v"," ","f","o","r"," ","d","e","t","a","i","l","s">>)

first_line(lines, hits, default) == IF hits = {} THEN default ELSE lines[Least(hits)]

scrape_department(lines) ==
    first_line(lines,
               {i \in 1..Len(lines) :
                   has_term(lines[i], department_terms) /\ Len(lines[i]) < DeptLineMax},
               <<"F","e","d","e","r","a","l"," ","G","o","v","e","r","n","m","e","n","t">>)

\* the first long line that is not the title, else the lines after the first,
\* else a sentence about the keyword
scrape_description(lines, title, keyword) ==
    first_line(lines,
               {i \in 1..Len(lines) : Len(lines[i]) > DescLineMin /\ lines[i] # title},
               IF Len(lines) > 1
               THEN str_join(SubSeq(lines, 2, Min(4, Len(lines))), <<" ">>)
               ELSE <<"F","e","d","e","r","a","l"," ","c","o","n","t","r","a","c","t"," ","o","p","p","o","r",
                     "t","u","n","i","t","y"," ","f","o","r"," ">> \o keyword)

\* the title of a container: its heading, else its opportunity-like link
container_title(c) ==
    IF c.heading.has /\ c.heading.s # << >> THEN c.heading.s
    ELSE IF c.link.has THEN c.link.s
    ELSE << >>

\* the text of the container looks like navigation or a footer
is_navigation(container_text) ==
    has_term(container_text, skip_terms) /\ Len(container_text) < NavTextMax

\* only a missing title makes a container unusable
is_unusable_title_if_missing(title) == title = << >>

\* no title, a short one, or a generic label
is_unusable_title(title) ==
    \/ title = << >>
    \/ Len(title) < ScrapeTitleMin
    \/ str_lower(title) \in generic_titles

\* the container is passed over: it raises, looks like navigation, or has no
\* usable title
container_skipped(c) ==
    \/ c.raises
    \/ is_navigation(str_join(c.lines, <<" ">>))
    \/ is_unusable_title(container_title(c))

titled_contract(lines, title, keyword) ==
    Contract(
      JStr(slice_to(title, ScrapeTitleMax)),
      JStr(scrape_notice_id(lines)),
      JStr(slice_to(scrape_description(lines, title, keyword), ScrapeDescMax)),
      JStr(scrape_posted_date(lines)),
      JStr(scrape_deadline(lines)),
      JStr(scrape_department(lines)),
      JStr(<<"A","c","t","i","v","e"," ","O","p","p","o","r","t","u","n","i","t","y">>),
      JStr(<<"S","e","e"," ","S","A","M",".","g","o","v"," ","f","o","r"," ","N","A","I","C","S"," ",
            "c","o","d","e","s">>))

container_contract(c, keyword) == titled_contract(c.lines, container_title(c), keyword)

container_kept(c) == ~container_skipped(c)

\* the containers the loop makes records of: those it does not pass over, until
\* limit records are collected (the test follows an append, so one record is
\* collected even for limit < 1)
collected(valid, limit) == SubSeq(valid, 1, Min(Max(limit, 1), Len(valid)))

contracts_of(taken, keyword) ==
    [i \in 1..Len(taken) |-> container_contract(taken[i], keyword)]

\* page is [loaded, containers]: loaded is FALSE when the browser fails to launch
\* or the navigation times out, which the function catches.  The loop runs over
\* the first 3 * limit containers.
fetch_sam_contracts_playwright(page, keyword, limit) ==
    IF ~page.loaded THEN << >>
    ELSE slice_to(
           contracts_of(
             collected(SelectSeq(slice_to(page.containers, limit * 3), container_kept), limit),
             keyword),
           limit)

(***************************************************************************)
(* generate_google_response / generate_openai_response                     *)
(*                                                                         *)
(* The outcome of a provider call is [ok, content, msg]: ok is FALSE when  *)
(* the call raises (auth, quota, network) with message msg; content is the *)
(* generated text, or JNull when the provider returns no text.             *)
(***************************************************************************)
Proposal(summary, bid_proposal) == [summary |-> summary, bid_proposal |-> bid_proposal]

\* the test for the marker forgotten: a text with a blank line is split there
split_content_unmarked(content) ==
    IF Len(str_split1(content, <<"\n", "\n">>)) = 2
    THEN Proposal(str_split1(content, <<"\n", "\n">>)[1], str_split1(content, <<"\n", "\n">>)[2])
    ELSE Proposal(slice_to(content, Len(content) \div 2),
                  slice_from(content, Len(content) \div 2))

\* the halves of the midpoint split exchanged
split_content_swapped(content) ==
    Proposal(slice_from(content, Len(content) \div 2), slice_to(content, Len(content) \div 2))

\* the split of the generated text into summary and proposal
split_content(content) ==
    LET parts == str_split1(content, <<"\n", "\n">>)
    IN IF /\ \/ str_in(<<"p","r","o","p","o","s","a","l"," ","o","u","t","l","i","n","e">>, str_lower(content))
             \/ str_in(<<"2",".">>, content)
          /\ Len(parts) = 2
       THEN Proposal(parts[1], parts[2])
       ELSE Proposal(slice_to(content, Len(content) \div 2),
                     slice_from(content, Len(content) \div 2))

\* the text of the exception the try block raises, << >> when it raises none;
\* content.lower() raises on a response without text
NoTextMsg == <<"'","N","o","n","e","T","y","p","e","'"," ","o","b","j","e","c","t"," ","h","a","s"," ",
      "n","o"," ","a","t","t","r","i","b","u","t","e"," ","'","l","o","w","e","r","'">>

provider_error(outcome) ==
    IF ~outcome.ok THEN outcome.msg
    ELSE IF outcome.content.t # "str" THEN NoTextMsg
    ELSE << >>

provider_raises(outcome) == ~outcome.ok \/ outcome.content.t # "str"

generate_google_response(contract_data, company_profile, outcome) ==
    IF provider_raises(outcome)
    THEN Proposal(<<"E","r","r","o","r"," ","g","e","n","e","r","a","t","i","n","g"," ","G","o","o","g","l",
          "e"," ","A","I"," ","r","e","s","p","o","n","s","e",":"," ">> \o provider_error(outcome),
                  <<"U","n","a","b","l","e"," ","t","o"," ","g","e","n","e","r","a","t","e"," ","p","r","o",
                        "p","o","s","a","l",".">>)
    ELSE split_content(outcome.content.s)

\* no except clause for a response without text: the text is split as if empty
generate_openai_response_unguarded(contract_data, company_profile, outcome) ==
    IF ~outcome.ok
    THEN Proposal(<<"E","r","r","o","r"," ","g","e","n","e","r","a","t","i","n","g"," ","O","p","e","n","A",
          "I"," ","r","e","s","p","o","n","s","e",":"," ">> \o outcome.msg,
                  <<"U","n","a","b","l","e"," ","t","o"," ","g","e","n","e","r","a","t","e"," ","p","r","o",
                        "p","o","s","a","l",".">>)
    ELSE split_content(outcome.content.s)

generate_openai_response(contract_data, company_profile, outcome) ==
    IF provider_raises(outcome)
    THEN Proposal(<<"E","r","r","o","r"," ","g","e","n","e","r","a","t","i","n","g"," ","O","p","e","n","A",
          "I"," ","r","e","s","p","o","n","s","e",":"," ">> \o provider_error(outcome),
                  <<"U","n","a","b","l","e"," ","t","o"," ","g","e","n","e","r","a","t","e"," ","p","r","o",
                        "p","o","s","a","l",".">>)
    ELSE split_content(outcome.content.s)

(***************************************************************************)
(* The three network strategies of fetch_sam_contracts, each the body of   *)
(* its try block; the except clause is in the strategy operators below.    *)
(*                                                                         *)
(* run  = [asyncio_error, page]: asyncio.run raises, or the page scraped   *)
(* resp = [error, status_code, body]: requests.get raises (network error,  *)
(*        timeout), or the response; body.t = "invalid" is a body that     *)
(*        response.json() cannot decode                                    *)
(***************************************************************************)
playwright_attempt(run, keyword, limit) ==
    IF run.asyncio_error THEN Raise
    ELSE Return(fetch_sam_contracts_playwright(run.page, keyword, limit))

api_attempt(resp, limit) ==
    IF resp.error THEN Raise
    ELSE IF resp.status_code # 200 THEN Return(<< >>)
    ELSE IF resp.body.t \in {"invalid", "null", "num"} THEN Raise
    ELSE IF resp.body.t = "list" THEN Return(<< >>)
    ELSE IF "opportunitiesData" \in DOMAIN resp.body.f
         THEN parse_sam_api_response(resp.body, limit)
         ELSE Return(<< >>)

rss_attempt(resp, keyword, limit) ==
    IF resp.error THEN Raise
    ELSE IF resp.status_code # 200 THEN Return(<< >>)
    ELSE Return(parse_rss_feed(resp.body, keyword, limit))

\* no except clause: the exception goes on to the caller
uncaught(r) == [exc |-> r.exc, ret |-> r.ret, failed |-> r.exc]

\* except Exception: the failure is printed and the strategy yields nothing;
\* failed records that it was caught
caught(r) ==
    [exc |-> FALSE, ret |-> IF r.exc THEN << >> ELSE r.ret, failed |-> r.exc]

\* a launch failure or navigation timeout is caught inside the scraper
playwright_strategy(run, keyword, limit) ==
    [caught(playwright_attempt(run, keyword, limit)) EXCEPT !.failed = @ \/ ~run.page.loaded]

api_strategy(resp, limit) == caught(api_attempt(resp, limit))

rss_strategy(resp, keyword, limit) == caught(rss_attempt(resp, keyword, limit))

(***************************************************************************)
(* Inputs                                                                  *)
(***************************************************************************)
MaxNegLimit == 2

MaxLimit == 4

MaxItems == 5

MaxContainers == 7

PresentLimit == 3

Keywords ==
    << <<"g","a","r","d","e","n","i","n","g">>, <<"e","R","R","o","r"," ","l","o","g","s">>, <<"t","e","r","r","o","r">>, <<"x","-","e","r","r","o","r">>, << >>, <<" ">>, <<"\t"," ","\n">> >>

CompanyNames == << <<" "," ">>, <<"G","r","e","e","n","S","c","a","p","e"," ","L","L","C">> >>

c_nav ==
    [raises |-> FALSE, heading |-> NoElem, link |-> NoElem,
     lines |-> << <<"P","r","i","v","a","c","y"," ","P","o","l","i","c","y">>, <<"S","i","g","n"," ","i","n">> >>]

c_short ==
    [raises |-> FALSE, heading |-> Elem(<<"S","e","a","r","c","h">>), link |-> NoElem,
     lines |-> << <<"S","e","a","r","c","h">>, <<"F","i","l","t","e","r"," ","b","y"," ","a","g","e","n","c","y">> >>]

\* a heading of 12 characters that is no generic label
c_brief ==
    [raises |-> FALSE, heading |-> Elem(<<"A","w","a","r","d"," ","n","o","t","i","c","e">>), link |-> NoElem,
     lines |-> << <<"A","w","a","r","d"," ","n","o","t","i","c","e">>, <<"N","o","t","i","c","e"," ","I","D",":"," ","A","B","C","D","E","1","2","3","4","5">> >>]

c_raise ==
    [raises |-> TRUE, heading |-> NoElem, link |-> NoElem, lines |-> << >>]

c_full ==
    [raises |-> FALSE,
     heading |-> Elem(<<"G","r","o","u","n","d","s"," ","M","a","i","n","t","e","n","a","n","c","e"," ","S","e",
           "r","v","i","c","e","s"," ","a","t"," ","F","o","r","t"," ","E","x","a","m","p","l","e">>),
     link |-> Elem(<<"G","r","o","u","n","d","s"," ","M","a","i","n","t","e","n","a","n","c","e"," ","S","e",
           "r","v","i","c","e","s"," ","a","t"," ","F","o","r","t"," ","E","x","a","m","p","l","e">>),
     lines |-> << <<"G","r","o","u","n","d","s"," ","M","a","i","n","t","e","n","a","n","c","e"," ","S","e",
           "r","v","i","c","e","s"," ","a","t"," ","F","o","r","t"," ","E","x","a","m","p","l","e">>,
                  <<"N","o","t","i","c","e"," ","I","D",":"," ","W","9","1","2","D","Y","2","4","R","0","0","0","1">>,
                  <<"D","e","p","a","r","t","m","e","n","t"," ","o","f"," ","t","h","e"," ","A","r","m","y">>,
                  <<"P","o","s","t","e","d",":"," ","1","0","/","1","5","/","2","0","2","4">>,
                  <<"R","e","s","p","o","n","s","e"," ","d","u","e"," ","N","o","v"," ","5",","," ","2","0","2","4">>,
                  <<"M","o","w","i","n","g",","," ","e","d","g","i","n","g"," ","a","n","d"," ","s","e","a",
                        "s","o","n","a","l"," ","p","l","a","n","t","i","n","g"," ","f","o","r"," ","a","l","l",
                        " ","c","a","n","t","o","n","m","e","n","t"," ","a","r","e","a","s">> >>]

c_link ==
    [raises |-> FALSE, heading |-> NoElem,
     link |-> Elem(<<"L","a","n","d","s","c","a","p","i","n","g"," ","a","n","d"," ","T","r","e","e"," ","R",
           "e","m","o","v","a","l"," ","B","P","A">>),
     lines |-> << <<"L","a","n","d","s","c","a","p","i","n","g"," ","a","n","d"," ","T","r","e","e"," ","R",
           "e","m","o","v","a","l"," ","B","P","A">> >>]

c_two ==
    [raises |-> FALSE,
     heading |-> Elem(<<"J","a","n","i","t","o","r","i","a","l"," ","S","e","r","v","i","c","e","s"," ","C","o",
           "n","t","r","a","c","t"," ","2","0","2","5">>),
     link |-> NoElem,
     lines |-> << <<"J","a","n","i","t","o","r","i","a","l"," ","S","e","r","v","i","c","e","s"," ","C","o",
           "n","t","r","a","c","t"," ","2","0","2","5">>,
                  <<"A","w","a","r","d"," ","S","P","E","3","0","0","2","4","-","D","_","0","0","4","2"," ",
                        "p","u","b","l","i","s","h","e","d"," ","2","0","2","4","-","1","1","-","3","0">> >>]

Page(containers) == [asyncio_error |-> FALSE, page |-> [loaded |-> TRUE, containers |-> containers]]

PlaywrightRuns ==
    << [asyncio_error |-> TRUE, page |-> [loaded |-> FALSE, containers |-> << >>]],
       [asyncio_error |-> FALSE, page |-> [loaded |-> FALSE, containers |-> << >>]],
       Page(<< >>),
       Page(<<c_nav, c_short, c_brief, c_raise>>),
       Page(<<c_nav, c_short, c_brief, c_raise, c_full, c_link, c_two>>),
       Page([i \in 1..MaxContainers |-> IF i % 2 = 1 THEN c_full ELSE c_two]) >>

opp_full ==
    JObj([title |-> JStr(<<"C","a","m","p","u","s"," ","G","r","o","u","n","d","s"," ","M","a","i","n","t","e","n",
          "a","n","c","e">>),
          noticeId |-> JStr(<<"W","9","1","2","D","Y","2","4","R","0","0","0","1">>),
          description |-> JStr(<<"M","o","w","i","n","g"," ","a","n","d"," ","p","r","u","n","i","n","g"," ","f","o","r",
                " ","t","h","e"," ","m","a","i","n"," ","c","a","m","p","u","s",".">>),
          postedDate |-> JStr(<<"2","0","2","4","-","1","0","-","1","5">>),
          responseDeadLine |-> JStr(<<"2","0","2","4","-","1","2","-","0","1">>),
          department |-> JDict(TRUE, <<"D","e","p","t"," ","o","f"," ","t","h","e"," ","A","r","m","y">>),
          type |-> JStr(<<"S","o","l","i","c","i","t","a","t","i","o","n">>),
          naicsCode |-> JStr(<<"5","6","1","7","3","0">>)])

opp_bare == JObj([solicitationNumber |-> JStr(<<"X","1">>)])

opp_blank ==
    JObj([title |-> JStr(<< >>), noticeId |-> JStr(<<"N","/","A">>), department |-> JNull])

opp_nulls ==
    JObj([title |-> JNull, noticeId |-> JNum(<<"4","2">>), description |-> JStr(<<"T","B","D">>),
          department |-> JDict(FALSE, << >>)])

opp_nodesc == JObj([title |-> JStr(<<"T","r","e","e"," ","R","e","m","o","v","a","l">>), description |-> JNull])

\* an item that names its identifier 'id' and has no title
opp_altid == JObj([id |-> JStr(<<"A","L","T","-","2","0","2","4","-","7","7">>), description |-> JStr(<<"S","n","o","w"," ","r","e","m","o","v","a","l">>)])

\* an item whose title is one character longer than the canonical record allows
opp_long ==
    JObj([title |-> JStr([i \in 1..(ScrapeTitleMax + 1) |-> "x"]),
          noticeId |-> JStr(<<"L","O","N","G","-","1">>),
          description |-> JStr(<<"L","o","n","g"," ","t","i","t","l","e">>)])

Http(status_code, body) == [error |-> FALSE, status_code |-> status_code, body |-> body]

HttpError == [error |-> TRUE, status_code |-> 0, body |-> JNull]

Invalid == [t |-> "invalid", s |-> << >>, has |-> FALSE]

ApiBody(opps) == JObj([opportunitiesData |-> opps])

ApiResponses ==
    << HttpError,
       Http(404, JNull),
       Http(200, Invalid),
       Http(200, JNull),
       Http(200, JList(<< >>)),
       Http(200, JObj([message |-> JStr(<<"n","o"," ","k","e","y">>)])),
       Http(200, ApiBody(JNull)),
       Http(200, ApiBody(JStr(<<"n","o","n","e">>))),
       Http(200, ApiBody(JList(<< >>))),
       Http(200, ApiBody(JList(<<opp_full>>))),
       Http(200, ApiBody(JList(<<opp_bare, opp_blank>>))),
       Http(200, ApiBody(JList(<<opp_nulls, opp_full>>))),
       Http(200, ApiBody(JList(<<opp_full, JStr(<<"x">>)>>))),
       Http(200, ApiBody(JList(<<opp_full, opp_nodesc>>))),
       Http(200, ApiBody(JList(<<opp_altid, opp_long>>))),
       Http(200, ApiBody(JList([i \in 1..MaxItems |-> opp_full]))) >>

item_full ==
    [title |-> Elem(<<"G","a","r","d","e","n","i","n","g"," ","S","e","r","v","i","c","e","s"," ","R","F","Q">>),
     description |-> Elem(<<"<","p",">","M","o","w","i","n","g"," ","a","n","d"," ","<","b",">","p","r","u","n","i",
           "n","g","<","/","b",">"," ","s","e","r","v","i","c","e","s","<","/","p",">">>),
     pubDate |-> Elem(<<"T","u","e",","," ","1","5"," ","O","c","t"," ","2","0","2","4">>),
     link |-> Elem(<<"h","t","t","p","s",":","/","/","s","a","m",".","g","o","v","/","o","p","p","/","A","B",
           "C","D","E","F","-","1","2","3","4","5","6","7","/","v","i","e","w">>)]

item_bare ==
    [title |-> NoElem, description |-> NoElem, pubDate |-> NoElem, link |-> NoElem]

item_blank ==
    [title |-> Elem(<< >>), description |-> Elem(<<"<","b","r","/",">">>), pubDate |-> Elem(<< >>),
     link |-> Elem(<<"h","t","t","p","s",":","/","/","s","a","m",".","g","o","v","/","o","p","p","/","1">>)]

Feed(items) == [ok |-> TRUE, items |-> items]

RssResponses ==
    << HttpError,
       Http(503, Feed(<< >>)),
       Http(200, [ok |-> FALSE, items |-> << >>]),
       Http(200, Feed(<< >>)),
       Http(200, Feed(<<item_full>>)),
       Http(200, Feed(<<item_bare, item_full>>)),
       Http(200, Feed(<<item_full, item_blank>>)),
       Http(200, Feed([i \in 1..MaxItems |-> item_full])) >>

Generated(text) == [ok |-> TRUE, content |-> JStr(text), msg |-> << >>]

Failed(msg) == [ok |-> FALSE, content |-> JNull, msg |-> msg]

NoText == [ok |-> TRUE, content |-> JNull, msg |-> << >>]

\* the answers of the two providers to the calls about one contract
ProviderOutcomes ==
    << [google |-> Failed(<<"4","2","9"," ","q","u","o","t","a"," ","e","x","c","e","e","d","e","d">>),
        openai |-> Generated(<<"1","."," ","S","c","o","p","e"," ","2","."," ","O","u","t","l","i","n","e"," ","i","n",
              " ","o","n","e"," ","p","a","r","a","g","r","a","p","h">>)],
       [google |-> Generated(<< >>),
        openai |-> Failed(<<"C","o","n","n","e","c","t","i","o","n"," ","e","r","r","o","r",".">>)],
       [google |-> Failed(<<"A","P","I"," ","k","e","y"," ","n","o","t"," ","v","a","l","i","d">>),
        openai |-> Failed(<<"C","o","n","n","e","c","t","i","o","n"," ","e","r","r","o","r",".">>)],
       [google |-> Generated(<<"x">>),
        openai |-> NoText],
       [google |-> Generated(<<"S","u","m","m","a","r","y"," ","o","f"," ","s","c","o","p","e",".","\n","\n","2","."," ",
             "P","r","o","p","o","s","a","l"," ","o","u","t","l","i","n","e",":"," ","w","e"," ","b",
             "i","d",".">>),
        openai |-> Generated(<<"O","v","e","r","v","i","e","w"," ","2",".","\n","\n">>)],
       [google |-> Generated(<<"F","i","r","s","t"," ","p","a","r","a","g","r","a","p","h","\n","\n","s","e","c","o","n",
             "d"," ","p","a","r","a","g","r","a","p","h">>),
        openai |-> Generated(<<"P","R","O","P","O","S","A","L"," ","O","U","T","L","I","N","E","\n","\n","b","o","d","y",
              "\n","\n","m","o","r","e">>)],
       [google |-> Generated(<<"\n","\n","2","."," ","o","u","t","l","i","n","e"," ","o","n","l","y">>),
        openai |-> Generated(<<"S","u","m","m","a","r","y"," ","o","f"," ","s","c","o","p","e",".","\n","\n","2","."," ",
              "P","r","o","p","o","s","a","l"," ","o","u","t","l","i","n","e",":"," ","w","e"," ","b",
              "i","d",".">>)] >>

NoOutcome == [ok |-> FALSE, content |-> JNull, msg |-> << >>]

NoProposal == Proposal(<< >>, << >>)

\* nothing was read yet
NoSource == [error |-> FALSE, status_code |-> 0, body |-> JNull, asyncio_error |-> FALSE]

NoCalls == [fetch |-> 0, samples |-> 0, google |-> 0, openai |-> 0, http |-> 0, browser |-> 0]

(***************************************************************************)
(* State                                                                   *)
(***************************************************************************)
VARIABLES
    PLAYWRIGHT_AVAILABLE, \* set once at import
    pc,                   \* where the request is: idle, playwright, scrape, api, rss, sample,
                          \* render, returned, raised; sampled after a lone call of
                          \* generate_sample_contracts
    caller,               \* "process_contracts", or "direct" for a call of fetch_sam_contracts
    keyword, limit,       \* arguments of fetch_sam_contracts
    company_profile,      \* [has, name]: None or the profile built from the form
    contracts,            \* what fetch_sam_contracts returned
    attempts,             \* the strategies tried so far, with what each yielded
    raised,               \* an exception reached the caller
    idx,                  \* position of the rendering loop
    google_outcome, openai_outcome,   \* what the providers answered to the last calls
    google_response, openai_response, \* the locals of that name in process_contracts
    html_output,          \* the blocks of markup appended so far, by kind
    calls,                \* calls made during the request, by callee
    browser,              \* the browser of the scrape: none, open or closed
    source                \* what the last strategy read: the page or the HTTP response

vars ==
    <<PLAYWRIGHT_AVAILABLE, pc, caller, keyword, limit, company_profile, contracts,
      attempts, raised, idx, google_outcome, openai_outcome, google_response,
      openai_response, html_output, calls, sample_calls, browser, source>>

Fresh ==
    /\ pc = "idle"
    /\ caller = "none"
    /\ keyword = << >>
    /\ limit = 0
    /\ company_profile = [has |-> FALSE, name |-> << >>]
    /\ contracts = << >>
    /\ attempts = << >>
    /\ raised = FALSE
    /\ idx = 0
    /\ google_outcome = NoOutcome
    /\ openai_outcome = NoOutcome
    /\ google_response = NoProposal
    /\ openai_response = NoProposal
    /\ html_output = << >>
    /\ calls = NoCalls
    /\ sample_calls = << >>
    /\ browser = "none"
    /\ source = NoSource

Init ==
    /\ PLAYWRIGHT_AVAILABLE \in BOOLEAN
    /\ Fresh

\* the first strategy of fetch_sam_contracts
first_strategy == IF PLAYWRIGHT_AVAILABLE THEN "playwright" ELSE "api"

\* fetch_sam_contracts returns cs to its caller
fetch_returns(cs) ==
    /\ contracts' = cs
    /\ IF caller = "process_contracts"
       THEN pc' = "render" /\ idx' = 1 /\ html_output' = <<"header">>
       ELSE pc' = "returned" /\ UNCHANGED <<idx, html_output>>

\* the test `if contracts:` forgotten: the next strategy is tried in any case
strategy_goes_on(strategy, r, next) ==
    /\ attempts' = Append(attempts,
           [strategy |-> strategy, yielded |-> Len(r.ret), failed |-> r.failed])
    /\ raised' = r.exc
    /\ pc' = next
    /\ UNCHANGED <<contracts, idx, html_output>>

\* a strategy of fetch_sam_contracts ends with outcome r: the call returns what
\* the strategy yielded, or goes on to the strategy next
strategy_ends(strategy, r, next) ==
    /\ attempts' = Append(attempts,
           [strategy |-> strategy, yielded |-> Len(r.ret), failed |-> r.failed])
    /\ raised' = r.exc
    /\ IF r.exc THEN pc' = "raised" /\ UNCHANGED <<contracts, idx, html_output>>
       ELSE IF r.ret # << >> THEN fetch_returns(r.ret)
       ELSE pc' = next /\ UNCHANGED <<contracts, idx, html_output>>

(***************************************************************************)
(* Actions                                                                 *)
(***************************************************************************)
\* a direct call fetch_sam_contracts(kw, lim)
call_fetch_sam_contracts ==
    /\ pc = "idle"
    /\ \E k \in 1..Len(Keywords), lim \in (0 - MaxNegLimit)..MaxLimit :
         /\ keyword' = Keywords[k]
         /\ limit' = lim
    /\ caller' = "direct"
    /\ pc' = first_strategy
    /\ calls' = [calls EXCEPT !.fetch = @ + 1]
    /\ UNCHANGED <<PLAYWRIGHT_AVAILABLE, company_profile, contracts, attempts, raised, idx,
                   google_outcome, openai_outcome, google_response, openai_response,
                   html_output, sample_calls, browser, source>>

\* the test without strip()
is_empty_keyword(kw) == kw = << >>

\* not keyword or keyword.strip() == ""
is_blank_keyword(kw) == kw = << >> \/ str_strip(kw) = << >>

\* process_contracts up to its call of fetch_sam_contracts
process_contracts ==
    /\ pc = "idle"
    /\ \E k \in 1..Len(Keywords), n \in 1..Len(CompanyNames) :
         /\ keyword' = Keywords[k]
         /\ IF is_blank_keyword(Keywords[k])
            THEN /\ html_output' = <<"validation">>
                 /\ pc' = "returned"
                 /\ UNCHANGED <<company_profile, limit, calls>>
            ELSE /\ company_profile' =
                       IF CompanyNames[n] # << >> /\ str_strip(CompanyNames[n]) # << >>
                       THEN [has |-> TRUE, name |-> CompanyNames[n]]
                       ELSE [has |-> FALSE, name |-> << >>]
                 /\ limit' = PresentLimit
                 /\ calls' = [calls EXCEPT !.fetch = @ + 1]
                 /\ pc' = first_strategy
                 /\ UNCHANGED html_output
    /\ caller' = "process_contracts"
    /\ UNCHANGED <<PLAYWRIGHT_AVAILABLE, contracts, attempts, raised, idx, google_outcome,
                   openai_outcome, google_response, openai_response, sample_calls,
                   browser, source>>

\* no `async with`: only browser.close() after the loop releases the browser
browser_on_exit_unscoped(loaded) == IF loaded THEN "closed" ELSE "open"

\* the browser when fetch_sam_contracts_playwright is left: browser.close() after
\* the loop, or the exit of `async with async_playwright()` when an exception
\* passes it, which stops the driver and the browsers it launched
browser_on_exit(loaded) == IF loaded THEN "closed" ELSE "closed"

\* strategy 1: the rendered-page scrape up to the launch of the browser; the
\* strategy is over when asyncio.run or the launch fails
try_playwright ==
    /\ pc = "playwright"
    /\ \/ /\ \E i \in 1..Len(PlaywrightRuns) :
                /\ PlaywrightRuns[i].asyncio_error \/ ~PlaywrightRuns[i].page.loaded
                /\ strategy_ends("playwright",
                                 playwright_strategy(PlaywrightRuns[i], keyword, limit), "api")
                /\ source' = PlaywrightRuns[i]
          /\ UNCHANGED <<browser, calls>>
       \/ /\ pc' = "scrape"
          /\ browser' = "open"
          /\ calls' = [calls EXCEPT !.browser = @ + 1]
          /\ UNCHANGED <<contracts, attempts, raised, idx, html_output, source>>
    /\ UNCHANGED <<PLAYWRIGHT_AVAILABLE, caller, keyword, limit, company_profile,
                   google_outcome, openai_outcome, google_response, openai_response,
                   sample_calls>>

\* strategy 1 with the browser launched: navigation, extraction, and the exit
\* from fetch_sam_contracts_playwright
scrape_page ==
    /\ pc = "scrape"
    /\ \E i \in 1..Len(PlaywrightRuns) :
         /\ ~PlaywrightRuns[i].asyncio_error
         /\ strategy_ends("playwright",
                          playwright_strategy(PlaywrightRuns[i], keyword, limit), "api")
         /\ source' = PlaywrightRuns[i]
         /\ browser' = browser_on_exit(PlaywrightRuns[i].page.loaded)
    /\ UNCHANGED <<PLAYWRIGHT_AVAILABLE, caller, keyword, limit, company_profile,
                   google_outcome, openai_outcome, google_response, openai_response,
                   sample_calls, calls>>

\* strategy 2: the public API
try_api ==
    /\ pc = "api"
    /\ \E i \in 1..Len(ApiResponses) :
         /\ strategy_ends("api", api_strategy(ApiResponses[i], limit), "rss")
         /\ source' = ApiResponses[i]
    /\ calls' = [calls EXCEPT !.http = @ + 1]
    /\ UNCHANGED <<PLAYWRIGHT_AVAILABLE, caller, keyword, limit, company_profile,
                   google_outcome, openai_outcome, google_response, openai_response,
                   sample_calls, browser>>

\* strategy 3: the feed
try_rss ==
    /\ pc = "rss"
    /\ \E i \in 1..Len(RssResponses) :
         /\ strategy_ends("rss", rss_strategy(RssResponses[i], keyword, limit), "sample")
         /\ source' = RssResponses[i]
    /\ calls' = [calls EXCEPT !.http = @ + 1]
    /\ UNCHANGED <<PLAYWRIGHT_AVAILABLE, caller, keyword, limit, company_profile,
                   google_outcome, openai_outcome, google_response, openai_response,
                   sample_calls, browser>>

\* the fallback returns without the samples
sample_dropped(cs) ==
    /\ fetch_returns(<< >>)
    /\ attempts' = Append(attempts,
           [strategy |-> "sample", yielded |-> 0, failed |-> FALSE])
    /\ sample_calls' = Append(sample_calls, [keyword |-> keyword, limit |-> limit, out |-> cs])

\* the fallback: return generate_sample_contracts(keyword, limit)
sample_returned(cs) ==
    /\ fetch_returns(cs)
    /\ attempts' = Append(attempts,
           [strategy |-> "sample", yielded |-> Len(cs), failed |-> FALSE])
    /\ sample_calls' = Append(sample_calls, [keyword |-> keyword, limit |-> limit, out |-> cs])

fallback ==
    /\ pc = "sample"
    /\ sample_returned(generate_sample_contracts(keyword, limit))
    /\ calls' = [calls EXCEPT !.samples = @ + 1]
    /\ UNCHANGED <<PLAYWRIGHT_AVAILABLE, caller, keyword, limit, company_profile, raised,
                   google_outcome, openai_outcome, google_response, openai_response,
                   browser, source>>

\* a call generate_sample_contracts(kw, lim) on its own, and a second one after it
call_generate_sample_contracts ==
    /\ pc \in {"idle", "sampled"}
    /\ Len(sample_calls) < 2
    /\ \E k \in 1..Len(Keywords), lim \in (0 - MaxNegLimit)..MaxLimit :
         sample_calls' = Append(sample_calls,
             [keyword |-> Keywords[k], limit |-> lim,
              out |-> generate_sample_contracts(Keywords[k], lim)])
    /\ pc' = "sampled"
    /\ UNCHANGED <<PLAYWRIGHT_AVAILABLE, caller, keyword, limit, company_profile, contracts,
                   attempts, raised, idx, google_outcome, openai_outcome, google_response,
                   openai_response, html_output, calls, browser, source>>

\* 'Error' not in contract['title'] raises TypeError on a title that is no container
title_test_raises(contract) == contract.title.t \in {"null", "num"}

\* the title tested for 'error' in any letter case
is_valid_contract_any_case(contract) ==
    /\ contract.notice_id # JStr(<<"N","/","A">>)
    /\ ~(contract.title.t = "str" /\ str_in(<<"e","r","r","o","r">>, str_lower(contract.title.s)))

\* the test on the title forgotten
is_valid_contract_by_id(contract) == contract.notice_id # JStr(<<"N","/","A">>)

\* the test that decides whether the providers are asked about the contract
is_valid_contract(contract) ==
    /\ contract.notice_id # JStr(<<"N","/","A">>)
    /\ ~(contract.title.t = "str" /\ str_in(<<"E","r","r","o","r">>, contract.title.s))

\* one iteration of the loop of process_contracts over the contracts
render_contract ==
    /\ pc = "render"
    /\ idx <= Len(contracts)
    /\ LET contract == contracts[idx]
       IN IF contract.notice_id # JStr(<<"N","/","A">>) /\ title_test_raises(contract)
          THEN /\ raised' = TRUE
               /\ pc' = "raised"
               /\ UNCHANGED <<idx, google_outcome, openai_outcome, google_response,
                              openai_response, html_output, calls>>
          ELSE IF is_valid_contract(contract)
          THEN /\ \E i \in 1..Len(ProviderOutcomes) :
                    /\ google_outcome' = ProviderOutcomes[i].google
                    /\ openai_outcome' = ProviderOutcomes[i].openai
                    /\ google_response' =
                         generate_google_response(contract, company_profile,
                                                  ProviderOutcomes[i].google)
                    /\ openai_response' =
                         generate_openai_response(contract, company_profile,
                                                  ProviderOutcomes[i].openai)
               /\ calls' = [calls EXCEPT !.google = @ + 1, !.openai = @ + 1]
               /\ html_output' = Append(html_output, "comparison")
               /\ idx' = idx + 1
               /\ UNCHANGED <<pc, raised>>
          ELSE /\ html_output' = Append(html_output, "description")
               /\ idx' = idx + 1
               /\ UNCHANGED <<pc, raised, google_outcome, openai_outcome, google_response,
                              openai_response, calls>>
    /\ UNCHANGED <<PLAYWRIGHT_AVAILABLE, caller, keyword, limit, company_profile, contracts,
                   attempts, sample_calls, browser, source>>

\* the loop is over: process_contracts returns html_output
return_html ==
    /\ pc = "render"
    /\ idx > Len(contracts)
    /\ pc' = "returned"
    /\ UNCHANGED <<PLAYWRIGHT_AVAILABLE, caller, keyword, limit, company_profile, contracts,
                   attempts, raised, idx, google_outcome, openai_outcome, google_response,
                   openai_response, html_output, calls, sample_calls, browser, source>>

\* the request is over; nothing is kept for the next one
next_request ==
    /\ pc \in {"returned", "raised", "sampled"}
    /\ pc' = "idle"
    /\ caller' = "none"
    /\ keyword' = << >>
    /\ limit' = 0
    /\ company_profile' = [has |-> FALSE, name |-> << >>]
    /\ contracts' = << >>
    /\ attempts' = << >>
    /\ raised' = FALSE
    /\ idx' = 0
    /\ google_outcome' = NoOutcome
    /\ openai_outcome' = NoOutcome
    /\ google_response' = NoProposal
    /\ openai_response' = NoProposal
    /\ html_output' = << >>
    /\ calls' = NoCalls
    /\ sample_calls' = << >>
    /\ browser' = "none"
    /\ source' = NoSource
    /\ UNCHANGED PLAYWRIGHT_AVAILABLE

Next ==
    \/ call_fetch_sam_contracts
    \/ process_contracts
    \/ try_playwright
    \/ scrape_page
    \/ try_api
    \/ try_rss
    \/ fallback
    \/ call_generate_sample_contracts
    \/ render_contract
    \/ return_html
    \/ next_request

Spec == Init /\ [][Next]_vars

(***************************************************************************)
(* Properties                                                              *)
(***************************************************************************)
\* fetch_sam_contracts has returned to its caller
FetchReturned ==
    /\ attempts # << >>
    /\ pc \in {"render", "returned"} \/ (pc = "raised" /\ idx >= 1)

LastAttempt == attempts[Len(attempts)]

\* the order in which the strategies are tried
StrategyOrder ==
    IF PLAYWRIGHT_AVAILABLE THEN <<"playwright", "api", "rss", "sample">>
    ELSE <<"api", "rss", "sample">>

\* C1: in one call of fetch_sam_contracts the strategies are tried in the order
\* scrape, API, feed (the scrape only when Playwright is installed), each at most
\* once; every strategy before the last one tried yielded nothing, so no strategy
\* follows one that yielded a record and the samples come only after the others
\* failed or were empty; the call returns what the last strategy yielded, and it
\* returns only once a strategy yielded a record or the samples were generated.
C1_StrictOrder ==
    /\ Len(attempts) <= Len(StrategyOrder)
    /\ \A i \in 1..Len(attempts) : attempts[i].strategy = StrategyOrder[i]
    /\ \A i \in 1..(Len(attempts) - 1) : attempts[i].yielded = 0
    /\ FetchReturned =>
          /\ Len(contracts) = LastAttempt.yielded
          /\ LastAttempt.yielded > 0 \/ LastAttempt.strategy = "sample"

\* the feed is the third strategy tried and the first to yield records
C1_Witness ==
    /\ pc = "returned"
    /\ Len(attempts) = 3
    /\ attempts[1].strategy = "playwright"
    /\ attempts[3].strategy = "rss"
    /\ attempts[3].yielded > 0

\* C2: no exception leaves fetch_sam_contracts (one is raised only later, by the
\* rendering loop of process_contracts), and a strategy that failed counts as
\* having yielded nothing.
C2_NeverFails ==
    /\ raised => (pc = "raised" /\ caller = "process_contracts" /\ idx >= 1)
    /\ pc = "raised" => raised
    /\ \A i \in 1..Len(attempts) : attempts[i].failed => attempts[i].yielded = 0

\* a direct call returns although the scrape, the API call and the feed call failed
C2_Witness ==
    /\ pc = "returned"
    /\ caller = "direct"
    /\ Len(attempts) = 4
    /\ \A i \in 1..3 : attempts[i].failed
    /\ ~raised

\* C3: when the scrape, the API and the feed all failed or were empty, the call
\* returns exactly generate_sample_contracts(keyword, limit).
C3_FallbackIsSamples ==
    (/\ FetchReturned
     /\ \A i \in 1..Len(attempts) :
           attempts[i].strategy # "sample" => attempts[i].yielded = 0)
    => /\ LastAttempt.strategy = "sample"
       /\ contracts = generate_sample_contracts(keyword, limit)

C3_Witness ==
    /\ FetchReturned
    /\ LastAttempt.strategy = "sample"
    /\ limit = 2
    /\ Len(contracts) = 2

\* C4 as stated: for every limit the call returns between 0 and limit records.
C4_AtMostLimit_AnyLimit == FetchReturned => Len(contracts) <= limit

\* C4: for every limit >= 0 the call returns between 0 and limit records,
\* whichever strategy produced them.
C4_AtMostLimit == (FetchReturned /\ limit >= 0) => Len(contracts) <= limit

\* the API answers with more items than the limit and the call returns limit records
C4_Witness ==
    /\ FetchReturned
    /\ LastAttempt.strategy = "api"
    /\ limit = 2
    /\ Len(contracts) = limit

IsFilled(v) == v.t = "str" /\ v.s # << >>

\* C5: every record the call returns has all eight fields present and non-empty.
C5_AllFieldsFilled ==
    FetchReturned =>
        \A i \in 1..Len(contracts) :
            /\ DOMAIN contracts[i] = Fields
            /\ \A f \in Fields : IsFilled(contracts[i][f])

\* C6 as stated: fetch_sam_contracts("gardening", 3) with every network strategy
\* failing returns three records whose titles all start with "Gardening" and whose
\* identifiers are DEMO-2024-001, -002, -003 in that order.
C6_Gardening_AllStart ==
    (/\ FetchReturned
     /\ keyword = <<"g","a","r","d","e","n","i","n","g">>
     /\ limit = 3
     /\ LastAttempt.strategy = "sample")
    => /\ Len(contracts) = 3
       /\ \A i \in 1..3 : str_startswith(contracts[i].title.s, <<"G","a","r","d","e","n","i","n","g">>)
       /\ contracts[1].notice_id.s = <<"D","E","M","O","-","2","0","2","4","-","0","0","1">>
       /\ contracts[2].notice_id.s = <<"D","E","M","O","-","2","0","2","4","-","0","0","2">>
       /\ contracts[3].notice_id.s = <<"D","E","M","O","-","2","0","2","4","-","0","0","3">>

\* C6: it returns three records whose identifiers are DEMO-2024-001, -002, -003
\* in that order; the titles of the first and the third start with "Gardening",
\* the title of the second starts with "Multi-Site Gardening".
C6_Gardening ==
    (/\ FetchReturned
     /\ keyword = <<"g","a","r","d","e","n","i","n","g">>
     /\ limit = 3
     /\ LastAttempt.strategy = "sample")
    => /\ Len(contracts) = 3
       /\ str_startswith(contracts[1].title.s, <<"G","a","r","d","e","n","i","n","g"," ">>)
       /\ str_startswith(contracts[2].title.s, <<"M","u","l","t","i","-","S","i","t","e"," ","G","a","r","d","e","n","i","n","g"," ">>)
       /\ str_startswith(contracts[3].title.s, <<"G","a","r","d","e","n","i","n","g"," ">>)
       /\ contracts[1].notice_id.s = <<"D","E","M","O","-","2","0","2","4","-","0","0","1">>
       /\ contracts[2].notice_id.s = <<"D","E","M","O","-","2","0","2","4","-","0","0","2">>
       /\ contracts[3].notice_id.s = <<"D","E","M","O","-","2","0","2","4","-","0","0","3">>

C6_Witness ==
    /\ pc = "returned"
    /\ caller = "direct"
    /\ keyword = <<"g","a","r","d","e","n","i","n","g">>
    /\ limit = 3
    /\ LastAttempt.strategy = "sample"
    /\ \A i \in 1..(Len(attempts) - 1) : attempts[i].failed

ErrorResult(provider, outcome) ==
    Proposal(<<"E","r","r","o","r"," ","g","e","n","e","r","a","t","i","n","g"," ">> \o provider \o <<" ","r","e","s","p","o","n","s","e",":"," ">> \o provider_error(outcome),
             <<"U","n","a","b","l","e"," ","t","o"," ","g","e","n","e","r","a","t","e"," ","p","r","o",
                   "p","o","s","a","l",".">>)

\* C8: when the call of a provider fails, the generator of that provider returns
\* the summary "Error generating <provider> response: <message>" and the outline
\* "Unable to generate proposal."; the failure raises nothing.
C8_ProviderFailure ==
    /\ (calls.google > 0 /\ provider_raises(google_outcome)) =>
          /\ google_response = ErrorResult(<<"G","o","o","g","l","e"," ","A","I">>, google_outcome)
          /\ str_startswith(google_response.summary, <<"E","r","r","o","r"," ","g","e","n","e","r","a","t","i","n","g">>)
    /\ (calls.openai > 0 /\ provider_raises(openai_outcome)) =>
          /\ openai_response = ErrorResult(<<"O","p","e","n","A","I">>, openai_outcome)
          /\ str_startswith(openai_response.summary, <<"E","r","r","o","r"," ","g","e","n","e","r","a","t","i","n","g">>)
    /\ (calls.google > 0 /\ pc # "raised") => ~raised

\* the calls of both providers raised
C8_Witness ==
    /\ calls.google > 0
    /\ calls.openai > 0
    /\ ~google_outcome.ok
    /\ ~openai_outcome.ok
    /\ google_response.bid_proposal = <<"U","n","a","b","l","e"," ","t","o"," ","g","e","n","e","r","a","t","e"," ","p","r","o",
          "p","o","s","a","l",".">>

BlankLine == <<"\n", "\n">>

BothFilled(r) == r.summary # << >> /\ r.bid_proposal # << >>

\* summary and outline are, in this order, what the text is made of
InSourceOrder(content, r) ==
    \/ content = r.summary \o r.bid_proposal
    \/ content = r.summary \o BlankLine \o r.bid_proposal

\* the first blank line is neither where the text starts nor where it ends
BlankLineInside(content) ==
    \/ ~str_in(BlankLine, content)
    \/ str_find(content, BlankLine) > 1 /\ str_find(content, BlankLine) + 2 <= Len(content)

\* C9 as stated: for every text a provider returns, summary and outline are both
\* non-empty and in source order.
C9_SplitNonEmpty ==
    /\ (calls.google > 0 /\ ~provider_raises(google_outcome)) =>
          BothFilled(google_response) /\ InSourceOrder(google_outcome.content.s, google_response)
    /\ (calls.openai > 0 /\ ~provider_raises(openai_outcome)) =>
          BothFilled(openai_response) /\ InSourceOrder(openai_outcome.content.s, openai_response)

SplitInOrder(outcome, r) ==
    /\ InSourceOrder(outcome.content.s, r)
    /\ (Len(outcome.content.s) >= 2 /\ BlankLineInside(outcome.content.s)) => BothFilled(r)

\* C9: for every text a provider returns, the summary is the start of the text
\* and the outline the rest of it, after the first blank line or right after the
\* summary; both are non-empty when the text has at least two characters and its
\* first blank line, if it has one, is neither at its start nor at its end.
C9_SplitInOrder ==
    /\ (calls.google > 0 /\ ~provider_raises(google_outcome)) =>
          SplitInOrder(google_outcome, google_response)
    /\ (calls.openai > 0 /\ ~provider_raises(openai_outcome)) =>
          SplitInOrder(openai_outcome, openai_response)

\* one text was split at its blank line, the other at its midpoint
C9_Witness ==
    /\ calls.google > 0
    /\ google_response = Proposal(<<"F","i","r","s","t"," ","p","a","r","a","g","r","a","p","h","\n">>, <<"\n","s","e","c","o","n","d"," ","p","a","r","a","g","r","a","p","h">>)
    /\ openai_response = Proposal(<<"P","R","O","P","O","S","A","L"," ","O","U","T","L","I","N","E">>, <<"b","o","d","y","\n","\n","m","o","r","e">>)

\* C10: process_contracts with an empty or whitespace-only keyword returns the
\* validation message and calls neither fetch_sam_contracts nor a provider, nor
\* the network.
C10_BlankKeyword ==
    (caller = "process_contracts" /\ str_strip(keyword) = << >>) =>
        /\ pc = "returned"
        /\ html_output = <<"validation">>
        /\ calls = NoCalls
        /\ attempts = << >>

C10_Witness ==
    /\ caller = "process_contracts"
    /\ keyword = <<"\t"," ","\n">>
    /\ pc = "returned"
    /\ html_output = <<"validation">>

\* the loop of process_contracts has passed the i-th contract
Passed(i) == i \in 1..Len(contracts) /\ i < idx

\* the notice id is not the "N/A" sentinel and the title does not contain "Error"
RealAndNoError(c) ==
    /\ c.notice_id # JStr(<<"N","/","A">>)
    /\ ~(c.title.t = "str" /\ str_in(<<"E","r","r","o","r">>, c.title.s))

\* the contracts passed for which both providers were asked
Compared == {i \in 1..Len(contracts) : Passed(i) /\ html_output[i + 1] = "comparison"}

C12_AlwaysRenders ==
    caller = "process_contracts" => (~raised /\ pc # "raised")

\* the scrape is the strategy whose records fetch_sam_contracts returned
ScrapeReturned == FetchReturned /\ LastAttempt.strategy = "playwright"

GenericLabels == { <<"a","l","l"," ","d","o","m","a","i","n","s">>, <<"h","e","l","p"," ","g","u","i","d","e">>, <<"s","e","a","r","c","h">>, <<"f","i","l","t","e","r">> }

\* C13: no record the scrape returns has a title of fewer than 15 characters or
\* a title that is, letter case aside, one of the generic labels "all domains",
\* "help guide", "search", "filter".
C13_ScrapedTitles ==
    ScrapeReturned =>
        \A i \in 1..Len(contracts) :
            /\ Len(contracts[i].title.s) >= 15
            /\ str_lower(contracts[i].title.s) \notin GenericLabels

\* the scrape returned records from a page on which the loop also met a
\* container with a generic label and one with a short title
C13_Witness ==
    /\ ScrapeReturned
    /\ Len(contracts) >= 2
    /\ \E j \in 1..Min(Len(source.page.containers), 3 * limit) :
          str_lower(container_title(source.page.containers[j])) \in GenericLabels
    /\ \E j \in 1..Min(Len(source.page.containers), 3 * limit) :
          /\ Len(container_title(source.page.containers[j])) \in 1..14
          /\ str_lower(container_title(source.page.containers[j])) \notin GenericLabels

\* C14: every record fetch_sam_contracts returns, whichever strategy made it,
\* has a title of at most 250 characters and a description of at most 2000.
C14_FieldLengths ==
    FetchReturned =>
        \A i \in 1..Len(contracts) :
            /\ contracts[i].title.t = "str" => Len(contracts[i].title.s) <= 250
            /\ contracts[i].description.t = "str" => Len(contracts[i].description.s) <= 2000

\* the last strategy was the API call and it handed the body to
\* parse_sam_api_response
ApiParsed ==
    /\ attempts # << >>
    /\ LastAttempt.strategy = "api"
    /\ ~source.error
    /\ source.status_code = 200
    /\ source.body.t = "obj"
    /\ "opportunitiesData" \in DOMAIN source.body.f

\* the last strategy was the feed call and it handed the content to parse_rss_feed
FeedParsed ==
    /\ attempts # << >>
    /\ LastAttempt.strategy = "rss"
    /\ ~source.error
    /\ source.status_code = 200

\* opportunitiesData is not a list of objects with text descriptions
MalformedData(opps) ==
    \/ opps.t # "list"
    \/ \E i \in 1..Len(opps.f) :
          \/ opps.f[i].t # "obj"
          \/ /\ "description" \in DOMAIN opps.f[i].f
             /\ opps.f[i].f.description.t # "str"

\* C15: parse_sam_api_response and parse_rss_feed return an empty sequence, and
\* do not raise, when their input is malformed.
C15_MalformedIsEmpty ==
    /\ (ApiParsed /\ MalformedData(source.body.f.opportunitiesData)) =>
          parse_sam_api_response(source.body, limit) = Return(<< >>)
    /\ (FeedParsed /\ ~source.body.ok) =>
          parse_rss_feed(source.body, keyword, limit) = << >>

\* the items of the API response that the returned contracts were made of
ApiItems == source.body.f.opportunitiesData.f

\* C16: in a record made of an API item without a title the title is
\* "Untitled"; in one made of an item without 'noticeId' the notice id is the
\* value under the alternate key 'id', and "N/A" when that is missing too.
C16_ApiFallbacks ==
    (FetchReturned /\ ApiParsed) =>
        \A i \in 1..Len(contracts) :
            /\ "title" \notin DOMAIN ApiItems[i].f =>
                  contracts[i].title = JStr(<<"U","n","t","i","t","l","e","d">>)
            /\ "noticeId" \notin DOMAIN ApiItems[i].f =>
                  contracts[i].notice_id =
                      IF "id" \in DOMAIN ApiItems[i].f THEN ApiItems[i].f.id
                      ELSE JStr(<<"N","/","A">>)

HasMarker(content) ==
    \/ \E i \in 1..Len(content) :
          /\ i + 15 <= Len(content)
          /\ [k \in 1..16 |-> tolower(content[i + k - 1])] = <<"p","r","o","p","o","s","a","l"," ","o","u","t","l","i","n","e">>
    \/ \E i \in 1..(Len(content) - 1) : content[i] = "2" /\ content[i + 1] = "."

\* r is the text split at its first blank line, which is dropped
SplitAtBlankLine(content, r) ==
    /\ content = r.summary \o BlankLine \o r.bid_proposal
    /\ ~str_in(BlankLine, r.summary)

\* r is the text split after its first floor(len / 2) characters
SplitAtMidpoint(content, r) ==
    /\ content = r.summary \o r.bid_proposal
    /\ Len(r.summary) = Len(content) \div 2

RuleAsStated(content, r) ==
    IF HasMarker(content) THEN SplitAtBlankLine(content, r) ELSE SplitAtMidpoint(content, r)

\* C18 as stated: a text with the marker phrase or "2." is split at its first
\* blank line, any other text at its midpoint.
C18_SplitRule_AsStated ==
    /\ (calls.google > 0 /\ ~provider_raises(google_outcome)) =>
          RuleAsStated(google_outcome.content.s, google_response)
    /\ (calls.openai > 0 /\ ~provider_raises(openai_outcome)) =>
          RuleAsStated(openai_outcome.content.s, openai_response)

Rule(content, r) ==
    IF HasMarker(content) /\ str_in(BlankLine, content)
    THEN SplitAtBlankLine(content, r)
    ELSE SplitAtMidpoint(content, r)

\* C18: a text that holds the marker phrase or "2." and has a blank line is
\* split at its first blank line; any other text, one with a marker but without
\* a blank line included, is split at its midpoint: the summary is its first
\* floor(len / 2) characters and the outline the rest.
C18_SplitRule ==
    /\ (calls.google > 0 /\ ~provider_raises(google_outcome)) =>
          Rule(google_outcome.content.s, google_response)
    /\ (calls.openai > 0 /\ ~provider_raises(openai_outcome)) =>
          Rule(openai_outcome.content.s, openai_response)

\* a text with "2." and without a blank line was split at its midpoint
C18_Witness ==
    /\ calls.openai > 0
    /\ ~provider_raises(openai_outcome)
    /\ HasMarker(openai_outcome.content.s)
    /\ ~str_in(BlankLine, openai_outcome.content.s)
    /\ Len(openai_response.summary) = Len(openai_outcome.content.s) \div 2
    /\ Len(openai_response.summary) > 0

\* process_contracts renders the samples fetch_sam_contracts fell back to
SamplesRendered ==
    /\ caller = "process_contracts"
    /\ FetchReturned
    /\ LastAttempt.strategy = "sample"

\* the keyword has a run of letters that begins with "error" in any letter case
HasErrorWord(kw) ==
    \E i \in 1..Len(kw) :
        /\ i + 4 <= Len(kw)
        /\ [k \in 1..5 |-> tolower(kw[i + k - 1])] = <<"e","r","r","o","r">>
        /\ i = 1 \/ ~iscased(kw[i - 1])

\* C19: when process_contracts renders the samples, every record has a DEMO-
\* identifier; for a keyword with a word that begins with "error" in any letter
\* case every title contains "Error", no provider is called and every block
\* rendered is a description alone; for any other keyword every block rendered
\* is a comparison and each provider was called once per block.
C19_ErrorKeyword ==
    SamplesRendered =>
        /\ \A i \in 1..Len(contracts) :
              /\ str_startswith(contracts[i].notice_id.s, <<"D","E","M","O","-">>)
              /\ HasErrorWord(keyword) <=> str_in(<<"E","r","r","o","r">>, contracts[i].title.s)
        /\ \A i \in 1..(idx - 1) :
              html_output[i + 1] =
                  IF HasErrorWord(keyword) THEN "description" ELSE "comparison"
        /\ calls.google = (IF HasErrorWord(keyword) THEN 0 ELSE idx - 1)
        /\ calls.openai = calls.google

\* the three samples for a keyword that has "error" after a hyphen were rendered
\* without a call of a provider
C19_Witness ==
    /\ SamplesRendered
    /\ pc = "returned"
    /\ keyword = <<"x","-","e","r","r","o","r">>
    /\ html_output = <<"header", "description", "description", "description">>
    /\ calls.google = 0

====
